---- MODULE Spec2Model ----
(***************************************************************************)
(* Model of the blog API's authorization middleware (protectUser,          *)
(* protectAdmin), the like toggle (POST /likes/:postId) and the like       *)
(* status read (GET /likes/:postId), with the store tables they touch.     *)
(* Every await of the handlers is one step, so that requests interleave    *)
(* exactly at their identity-provider and store calls.                     *)
(***************************************************************************)
EXTENDS Integers, Sequences, FiniteSets, TLC

\* ---------------------------------------------------------------- bounds
\* number of requests that can be in flight at once
MaxReq == 2
\* number of requests accepted in one behaviour
MaxCalls == 2

\* number of requests accepted when they run one at a time
MaxSeqCalls == 3
\* number of requests accepted when every header and route is tried
MaxAuthCalls == 1
\* number of toggles of the one pair that is followed alone
MaxPairCalls == 4
\* number of requests to admin-gated routes while roles change
MaxRoleCalls == 2
\* number of login and reset-password requests
MaxSessionCalls == 2
\* number of calls of the store helper that are followed
MaxHelperCalls == 2
\* number of calls of createNotification that are followed alone
MaxNotifyCalls == 3
\* number of DELETE /users/:id requests
MaxUserCalls == 2
\* number of requests while posts are deleted
MaxPostCalls == 2
\* number of requests while categories are deleted
MaxCategoryCalls == 2
\* number of PUT and DELETE /comments/:commentId requests
MaxCommentCalls == 2
\* number of register and PUT /profiles requests
MaxProfileCalls == 2

Slots == 1..MaxReq

\* ------------------------------------------------------------ the domain
\* principals known to the identity provider; "g1" has no users row
Principals == {"u1", "u2", "a1", "a2", "g1"}
\* ids of the blog_posts rows
PostIds == {1, 2}
\* Number(postId) of a parameter that is not numeric
NaN == -1

\* req.params.postId as sent by the client; "7" names no post
PostParams == {"1", "2", "7", "abc"}

\* Number(postId) (likes.ts:18, 40)
ToNumber(p) ==
  CASE p = "1" -> 1
    [] p = "2" -> 2
    [] p = "7" -> 7
    [] OTHER -> NaN

\* ------------------------------------------------- credential extraction
\* An Authorization header: absent, or a string.  A string is a sequence
\* of pieces, each piece either the space character or a run of
\* characters without a space.
NoHeader == [present |-> FALSE, chars |-> <<>>]
Header(cs) == [present |-> TRUE, chars |-> cs]

Headers ==
  { NoHeader,
    Header(<<"Bearer">>),
    Header(<<"Bearer", " ">>),
    Header(<<"Bearer", " ", "t1">>),
    Header(<<"Bearer", " ", "t2">>),
    Header(<<"Bearer", " ", "ta">>),
    Header(<<"Bearer", " ", "tg">>),
    Header(<<"Bearer", " ", "bad">>),
    Header(<<"Basic", " ", "t1">>) }

\* the headers and parameters of the like requests that are followed
LikeHeaders ==
  { NoHeader,
    Header(<<"Bearer", " ", "t1">>),
    Header(<<"Bearer", " ", "t2">>),
    Header(<<"Bearer", " ", "bad">>) }
LikeParams == {"1", "2", "7", "abc"}
AdminHeaders ==
  { Header(<<"Bearer", " ", "ta">>),
    Header(<<"Bearer", " ", "t1">>),
    Header(<<"Bearer", " ", "tg">>),
    Header(<<"Bearer", " ", "bad">>) }
ResetHeaders ==
  { Header(<<"Bearer", " ", "t1">>),
    Header(<<"Bearer", " ", "t2">>) }
\* the accounts that sign in, and the passwords a client sends
Accounts == {"u1", "u2"}
PasswordsSent == {"old", "bad"}
\* the headers and ids of the user deletions that are followed
UserDeleteHeaders ==
  { Header(<<"Bearer", " ", "ta">>),
    Header(<<"Bearer", " ", "t1">>) }
UserIds == {"u1", "u2", "nobody"}
ToggleHeaders ==
  { Header(<<"Bearer", " ", "t1">>),
    Header(<<"Bearer", " ", "t2">>),
    Header(<<"Bearer", " ", "bad">>) }

\* String.prototype.split(sep): the pieces between the separators
RECURSIVE SplitAcc(_, _, _, _)
SplitAcc(chars, sep, cur, acc) ==
  IF chars = <<>> THEN Append(acc, cur)
  ELSE IF Head(chars) = sep
       THEN SplitAcc(Tail(chars), sep, <<>>, Append(acc, cur))
       ELSE SplitAcc(Tail(chars), sep, Append(cur, Head(chars)), acc)

Split(chars, sep) == SplitAcc(chars, sep, <<>>, <<>>)

Undefined == [defined |-> FALSE, val |-> <<>>]
Some(v) == [defined |-> TRUE, val |-> v]

\* req.headers.authorization?.split(" ")[1]
TokenOf(h) ==
  IF ~h.present THEN Undefined
  ELSE LET parts == Split(h.chars, " ")
       IN IF Len(parts) >= 2 THEN Some(parts[2]) ELSE Undefined

\* !token
FalsyUndefinedOnly(t) == ~t.defined
Falsy(t) == ~t.defined \/ t.val = <<>>

\* the identity provider's answer to auth.getUser for a token:
\* the principal the token was issued to, or "nobody" for an invalid token
TokenPrincipal(t) ==
  CASE t = <<"t1">> -> "u1"
    [] t = <<"t2">> -> "u2"
    [] t = <<"ta">> -> "a1"
    [] t = <<"tg">> -> "g1"
    [] OTHER -> "nobody"

\* ------------------------------------------------------------- the state
VARIABLES
  blog_posts,     \* blog_posts: post id -> its likes column
  post_likes,     \* post_likes: <<post_id, user_id>> -> number of rows
  users,          \* users: id -> role, for the principals that have a row
  notifications,  \* notifications: the number of rows
  req,            \* the requests in flight, one per slot
  calls,          \* requests accepted so far
  queryHasEq,     \* whether supabase.from(table) exposes eq (supabaseRls.ts:124)
  storeFailed,    \* history: a store or identity-provider call has failed
  liked,          \* history: toggles that answered 200 with isLiked = true
  likes0,         \* history: the likes column of every post at the start
  session,        \* the principal signed in on the client of getSupabase()
  passwords,      \* identity provider: principal -> password
  tbl,            \* a table the helper is called on: row id -> row
  hop,            \* the helper call made on tbl and what it gave
  config,         \* whether SUPABASE_URL and SUPABASE_ANON_KEY are set
  note,           \* the last call of createNotification and what it gave
  comments,       \* comments: the set of rows
  categories,     \* categories: the ids of the rows
  post_cat,       \* blog_posts: post id -> its category_id column
  profiles,       \* users: id -> the columns of the row other than role
  commentPolicy   \* the row-level policies of comments: "own" or "open"

\* the tables of the routes other than the like routes
tables == <<comments, categories, post_cat, profiles>>

\* the state of the routes and helpers other than the like routes
\* what the process is deployed with
env == <<config, commentPolicy>>

more == <<env, note, tables>>

\* the singleton client, the passwords and the table of the helper calls
aux == <<session, passwords, tbl, hop, more>>

vars == <<blog_posts, post_likes, users, notifications, req, calls,
          queryHasEq, storeFailed, liked, likes0, aux>>

store == <<blog_posts, post_likes, users, notifications>>

Pairs == PostIds \X Principals

Routes == {"toggle", "status", "admin"}

\* the routes registered with protectAdmin
AdminRoutes ==
  {"admin", "deleteUser", "deletePost", "deleteCategory", "createPost"}

\* a slot with no request
Idle ==
  [pc |-> "idle", route |-> "none", header |-> NoHeader, user |-> "nobody",
   postParam |-> "1", cur |-> 0, newCount |-> 0, branch |-> "none",
   isLiked |-> FALSE,
   pending |-> <<>>, result |-> "none",
   idp |-> FALSE, authed |-> FALSE, queried |-> FALSE, handler |-> FALSE,
   mw |-> FALSE, cw |-> FALSE, sent |-> 0,
   down |-> FALSE, role |-> "none", role0 |-> "none", client |-> "none",
   email |-> "nobody", target |-> "nobody",
   rowAfter |-> FALSE, stored |-> 0, id |-> "none", left |-> 0,
   body |-> "", owner |-> "nobody", fields |-> <<>>, failed |-> "none"]

\* the number of post_likes rows of a post
RECURSIVE SumRows(_, _, _)
SumRows(pl, p, us) ==
  IF us = {} THEN 0
  ELSE LET u == CHOOSE x \in us : TRUE
       IN pl[<<p, u>>] + SumRows(pl, p, us \ {u})

RowCount(p) == SumRows(post_likes, p, Principals)

\* the number of rows a select on post_likes { post_id, user_id } returns
Rows(pr) == IF pr \in DOMAIN post_likes THEN post_likes[pr] ELSE 0

\* select blog_posts { id } returned a row: post && post.length > 0
PostFoundAlways(p) == TRUE
PostFound(p) == p \in DOMAIN blog_posts

\* currentPost.likes || 0 (likes.ts:36)
LikesOf(p) == IF p \in DOMAIN blog_posts THEN blog_posts[p] ELSE 0

\* the rows a select on users with { role: 'admin' } returns, in table order
UserOrder == <<"a1", "a2", "g1", "u1", "u2">>
RECURSIVE AdminRowsFrom(_, _)
AdminRowsFrom(us, i) ==
  IF i > Len(UserOrder) THEN <<>>
  ELSE LET rest == AdminRowsFrom(us, i + 1)
           u == UserOrder[i]
       IN IF u \in DOMAIN us /\ us[u] = "admin" THEN <<u>> \o rest ELSE rest

AdminRows(us) == AdminRowsFrom(us, 1)

\* Math.max(currentLikeCount - 1, 0) (likes.ts:55)
DecrementNoFloor(c) == c - 1
Decrement(c) == IF c - 1 > 0 THEN c - 1 ELSE 0

\* currentLikeCount + 1 (likes.ts:69)
IncrementForgotten(c) == c
Increment(c) == c + 1

\* the users table as it is when the tokens are issued
FirstUsers ==
  [u \in {"u1", "u2", "a1", "a2"} |->
     IF u \in {"a1", "a2"} THEN "admin" ELSE "user"]

\* (a gate that takes the role from what the token was issued with)
TokenRole(u) == IF u \in DOMAIN FirstUsers THEN FirstUsers[u] ELSE "none"

\* select users.role { id }: the role of the caller's row, "none" when the
\* select returns no row
StoredRole(u) == IF u \in DOMAIN users THEN users[u] ELSE "none"

\* (a gate that answers Forbidden when the row is missing)
RoleAnswerForbidMissing(role) ==
  IF role = "admin" THEN "next" ELSE "403 Forbidden"

\* (a gate that lets every principal with a row through)
RoleAnswerAnyRow(role) ==
  IF role = "none" THEN "404 User role not found" ELSE "next"

\* protectAdmin after the role lookup: 404 without a row, 403 unless the
\* role is admin, else next()
RoleAnswer(role) ==
  IF role = "none" THEN "404 User role not found"
  ELSE IF role # "admin" THEN "403 Forbidden"
  ELSE "next"

\* (handlers that all take the service-role client)
ClientForServiceAlways(rt) == "service"

\* the client a handler makes its calls with: the like routes bind the
\* caller's token, the admin routes take the service-role client, login and
\* reset-password the one client of getSupabase()
ClientFor(rt) ==
  IF rt \in {"admin", "deleteUser", "deletePost"} THEN "service"
  ELSE IF rt \in {"login", "reset", "register"} THEN "singleton"
  ELSE "token"

Quiescent == \A s \in Slots : req[s].pc \in {"idle", "done"}

\* the response ends the request
Respond(r, res) == [r EXCEPT !.pc = "done", !.result = res]

\* the catch of the handler: a store error becomes DatabaseError
Fail(s) ==
  /\ req' = [req EXCEPT ![s] = Respond(req[s], "DatabaseError")]
  /\ storeFailed' = TRUE

\* one more request, or call, is accepted, up to max
Accept(max) ==
  /\ calls < max
  /\ calls' = calls + 1

\* ------------------------------------------------- SupabaseRlsHelper
\* Strings are sequences of characters.  A filter value is a number or a
\* string (kind "num" / "str", v its text) or an array (kind "arr", v the
\* sequence of its elements' texts).
Num(s) == [kind |-> "num", v |-> s]
Str(s) == [kind |-> "str", v |-> s]
Arr(a) == [kind |-> "arr", v |-> a]

\* value.includes('%')
Includes(str, ch) == \E i \in 1..Len(str) : str[i] = ch

\* the text of a value in the request the client sends: the elements of an
\* array are joined with commas
RECURSIVE Join(_)
Join(a) ==
  IF a = <<>> THEN <<>>
  ELSE IF Len(a) = 1 THEN a[1]
  ELSE a[1] \o <<",">> \o Join(Tail(a))

Text(value) == IF value.kind = "arr" THEN Join(value.v) ELSE value.v

Lower(c) == IF c = "A" THEN "a" ELSE IF c = "B" THEN "b" ELSE c

\* column ILIKE pattern: % stands for any run of characters, letters match
\* whatever their case
RECURSIVE ILike(_, _)
ILike(pat, str) ==
  IF pat = <<>> THEN str = <<>>
  ELSE IF Head(pat) = "%"
       THEN ILike(Tail(pat), str) \/ (str # <<>> /\ ILike(pat, Tail(str)))
       ELSE /\ str # <<>>
            /\ Lower(Head(pat)) = Lower(Head(str))
            /\ ILike(Tail(pat), Tail(str))

\* query.eq(key, value)
EqMatch(value, cell) == cell = Text(value)

\* the filter select applies for a value: in for an array, ilike for a
\* string that contains '%', eq otherwise
SelectMatch(value, cell) ==
  IF value.kind = "arr" THEN \E i \in 1..Len(value.v) : value.v[i] = cell
  ELSE IF value.kind = "str" /\ Includes(value.v, "%") THEN ILike(value.v, cell)
  ELSE EqMatch(value, cell)

\* row level security: a client bound to a token sees the rows of its
\* principal, the service-role client sees every row
Visible(row, cred) == cred = "service" \/ row.owner = cred

\* the rows a select with the filters returns
SelectRows(t, f, cred) ==
  { row \in t : Visible(row, cred)
                /\ \A k \in DOMAIN f : SelectMatch(f[k], row[k]) }

\* the rows an update or a delete with the filters is applied to
EqRows(t, f, cred) ==
  { row \in t : Visible(row, cred)
                /\ \A k \in DOMAIN f : EqMatch(f[k], row[k]) }

\* the tables, filter mappings and credentials the helper is called with
Names == { <<"a", "b">>, <<"A", "B">>, <<"a", "%">> }
Owners == {"u1", "u2"}
Row(i, n, o) == [id |-> i, name |-> n, owner |-> o]
Tables ==
  { {Row(<<"1">>, n1, o1), Row(<<"2">>, n2, o2)} :
      n1 \in Names, n2 \in Names, o1 \in Owners, o2 \in Owners }
Filters ==
  { [k \in {"id"} |-> Num(<<"1">>)],
    [k \in {"id"} |-> Num(<<"3">>)],
    [k \in {"id"} |-> Arr(<<<<"1">>, <<"2">>>>)],
    [k \in {"name"} |-> Str(<<"a", "b">>)],
    [k \in {"name"} |-> Str(<<"a", "%">>)],
    [k \in {"id", "name"} |->
       IF k = "id" THEN Num(<<"2">>) ELSE Str(<<"a", "b">>)] }
Credentials == {"u1", "service"}

\* no helper call yet
NoCall ==
  [op |-> "none", filters |-> <<>>, cred |-> "none", before |-> {},
   sent |-> FALSE, targets |-> {}, error |-> FALSE, storeError |-> FALSE,
   result |-> {}]

\* what a call leaves behind: the table before it, whether a request was
\* sent to the store, the rows the request was applied to, whether the
\* helper threw, and the rows it returned
Call(op, f, cred, sent, targets, error, storeError, result) ==
  [op |-> op, filters |-> f, cred |-> cred, before |-> tbl,
   sent |-> sent, targets |-> targets, error |-> error,
   storeError |-> storeError, result |-> result]

HelperFrame ==
  UNCHANGED <<store, req, queryHasEq, liked, likes0, session, passwords, more>>

\* select(table, "*", filters): the rows, or a throw when the store fails
HelperSelect(f, cred) ==
  /\ Accept(MaxHelperCalls)
  /\ LET rows == SelectRows(tbl, f, cred)
     IN \/ /\ hop' = Call("select", f, cred, TRUE, rows, TRUE, TRUE, {})
           /\ storeFailed' = TRUE
        \/ /\ hop' = Call("select", f, cred, TRUE, rows, FALSE, FALSE, rows)
           /\ UNCHANGED storeFailed
  /\ UNCHANGED tbl
  /\ HelperFrame

\* the rows of t, those of targets with the name column set to n
Updated(t, targets, n) ==
  { IF row \in targets THEN [row EXCEPT !.name = n] ELSE row : row \in t }

\* update(table, { name }, filters): every filter is applied with eq, and
\* .select().single() gives an error unless exactly one row comes back; with
\* several rows the store may or may not have kept the change
HelperUpdate(f, cred) ==
  /\ Accept(MaxHelperCalls)
  /\ LET targets == EqRows(tbl, f, cred)
         new == Updated(tbl, targets, <<"b">>)
         row == Updated(targets, targets, <<"b">>)
     IN \/ /\ hop' = Call("update", f, cred, TRUE, targets, TRUE, TRUE, {})
           /\ storeFailed' = TRUE
           /\ UNCHANGED tbl
        \/ /\ Cardinality(targets) = 1
           /\ hop' = Call("update", f, cred, TRUE, targets, FALSE, FALSE, row)
           /\ tbl' = new
           /\ UNCHANGED storeFailed
        \/ /\ Cardinality(targets) # 1
           /\ hop' = Call("update", f, cred, TRUE, targets, TRUE, FALSE, {})
           /\ tbl' \in {tbl, new}
           /\ UNCHANGED storeFailed
  /\ HelperFrame

\* delete(table, filters) with some filter: the helper throws before any
\* request when from(table) has no eq; otherwise every filter is applied
\* with eq and the first deleted row, or none, is returned
HelperDelete(f, cred) ==
  /\ Accept(MaxHelperCalls)
  /\ DOMAIN f # {}
  /\ LET targets == EqRows(tbl, f, cred)
     IN IF ~queryHasEq
        THEN /\ hop' = Call("delete", f, cred, FALSE, {}, TRUE, FALSE, {})
             /\ UNCHANGED <<tbl, storeFailed>>
        ELSE \/ /\ hop' = Call("delete", f, cred, TRUE, targets, TRUE, TRUE, {})
                /\ storeFailed' = TRUE
                /\ UNCHANGED tbl
             \/ /\ \E first \in IF targets = {} THEN {{}}
                                ELSE {{row} : row \in targets} :
                     hop' = Call("delete", f, cred, TRUE, targets, FALSE,
                                 FALSE, first)
                /\ tbl' = tbl \ targets
                /\ UNCHANGED storeFailed
  /\ HelperFrame

\* no call of createNotification yet
NoNote == [user |-> "nobody", store |-> "none", out |-> "none"]

\* what the insert into notifications gives: the row, an error in the
\* answer, or a rejected call
StoreOutcomes == {"ok", "error", "rejected"}

\* createNotification(userId, ...): getSupabase() is called before the try
\* and throws without the configuration; inside the try a store error and
\* a rejected store call both give null, and the inserted row is returned
NotificationOutcome(cfg, st) ==
  IF ~cfg THEN "throw"
  ELSE IF st = "ok" THEN "row"
  ELSE "null"

\* the columns of a new users row other than role
Profile(username) ==
  [username |-> username, name |-> "n0", introduction |-> "i0",
   profile_pic |-> "p0", status |-> "active"]

\* a comments row
Comment(i, p, u) == [id |-> i, post_id |-> p, user_id |-> u, comment |-> "a"]

\* u1 has commented on post 1 and u2 on post 2
\* (the likes and the categories of the posts are set by Init and here:
\* both posts are in category 1, category 2 has no post)
InitRest ==
  /\ comments = {Comment("1", 1, "u1"), Comment("2", 2, "u2")}
  /\ categories = {1, 2}
  /\ post_cat = [p \in PostIds |-> 1]
  /\ profiles = [u \in DOMAIN FirstUsers |-> Profile(u)]

\* the process runs with its configuration set
InitMore ==
  /\ config = TRUE
  /\ commentPolicy = "own"
  /\ note = NoNote
  /\ InitRest

\* post 1 starts with no like or with one like, by u2; every counter
\* equals its row count
InitLikes ==
  /\ \E l \in {0, 1} :
       /\ post_likes = [pr \in Pairs |-> IF pr = <<1, "u2">> THEN l ELSE 0]
       /\ blog_posts = [p \in PostIds |-> IF p = 1 THEN l ELSE 0]
       /\ likes0 = [p \in PostIds |-> IF p = 1 THEN l ELSE 0]
  /\ users = FirstUsers
  /\ notifications = 0
  /\ req = [s \in Slots |-> Idle]
  /\ calls = 0
  /\ queryHasEq \in BOOLEAN
  /\ storeFailed = FALSE
  /\ liked = 0
  /\ session = "anon"
  /\ passwords = [u \in Principals |-> "old"]
  /\ tbl = {}
  /\ hop = NoCall

Init == InitLikes /\ InitMore

\* the comments are under the policies of the example (each user sees and
\* writes the own rows) or open to every signed-in user
CommentPolicies == {"own", "open"}
InitComments ==
  /\ InitLikes
  /\ config = TRUE
  /\ commentPolicy \in CommentPolicies
  /\ note = NoNote
  /\ InitRest

\* the helper is called on a table of two rows
InitHelper ==
  /\ post_likes = [pr \in Pairs |-> 0]
  /\ blog_posts = [p \in PostIds |-> 0]
  /\ likes0 = [p \in PostIds |-> 0]
  /\ users = FirstUsers
  /\ notifications = 0
  /\ req = [s \in Slots |-> Idle]
  /\ calls = 0
  /\ queryHasEq \in BOOLEAN
  /\ storeFailed = FALSE
  /\ liked = 0
  /\ session = "anon"
  /\ passwords = [u \in Principals |-> "old"]
  /\ tbl \in Tables
  /\ hop = NoCall
  /\ InitMore

\* ------------------------------------------------------------ middleware
\* after the credential check: protectAdmin issues its role lookup;
\* protectUser calls next(), and the handler runs up to its first call
\* (reset-password signs in with user.email)
EnterHandler(r) ==
  IF r.route \in AdminRoutes
  THEN [r EXCEPT !.pc = "selectRole", !.queried = TRUE]
  ELSE IF r.route = "reset"
  THEN [r EXCEPT !.handler = TRUE, !.client = ClientFor(r.route),
                 !.pc = "signIn", !.email = r.user]
  ELSE IF r.route \in {"updateComment", "deleteComment"}
  THEN LET h == [r EXCEPT !.handler = TRUE, !.client = ClientFor(r.route)]
       IN IF r.route = "updateComment" /\ r.body = ""
          THEN Respond(h, "ValidationError")
          ELSE [h EXCEPT !.queried = TRUE, !.pc = "selectComment"]
  ELSE IF r.route = "updateProfile"
  THEN [r EXCEPT !.handler = TRUE, !.client = ClientFor(r.route),
                 !.queried = TRUE, !.pc = "selectProfile"]
  ELSE IF r.route = "comment"
  THEN LET h == [r EXCEPT !.handler = TRUE, !.client = ClientFor(r.route)]
       IN IF r.postParam = ""
          THEN Respond(h, "ValidationError")
          ELSE [h EXCEPT !.queried = TRUE, !.pc = "selectCommenter"]
  ELSE LET h == [r EXCEPT !.handler = TRUE, !.client = ClientFor(r.route)]
       IN IF ToNumber(r.postParam) = NaN
          THEN Respond(h, "ValidationError")
          ELSE [h EXCEPT !.queried = TRUE,
                         !.pc = IF r.route = "toggle" THEN "selectPost"
                                ELSE "statusUserLike"]

\* protectAdmin calls next(), and the handler of the admin-gated route runs
\* up to its first awaited call: DELETE /posts/:postId validates the id and
\* calls the helper's delete, which throws when from(table) has no eq
AdminEnter(r) ==
  LET h == [r EXCEPT !.handler = TRUE, !.client = ClientFor(r.route)]
  IN CASE r.route = "deleteUser" -> [h EXCEPT !.pc = "deleteUserComments"]
       [] r.route = "deletePost" ->
            IF ToNumber(r.postParam) = NaN THEN Respond(h, "ValidationError")
            ELSE IF queryHasEq THEN [h EXCEPT !.pc = "deletePostComments"]
            ELSE Respond(h, "DatabaseError")
       [] r.route = "deleteCategory" ->
            IF ToNumber(r.id) = NaN THEN Respond(h, "ValidationError")
            ELSE [h EXCEPT !.pc = "selectCategory"]
       [] r.route = "createPost" ->
            IF r.id = "none" THEN Respond(h, "ValidationError")
            ELSE [h EXCEPT !.pc = "insertPost"]
       [] OTHER -> [h EXCEPT !.pc = "adminHandler"]

\* a request arrives; the middleware extracts the token and, if there is
\* one, calls auth.getUser (role0 records the stored role of the token's
\* principal at that moment)
RequestFrom(s, r0) ==
  /\ req[s].pc \in {"idle", "done"}
  /\ LET h == r0.header
         who == TokenPrincipal(TokenOf(h).val)
         r == [r0 EXCEPT !.role0 = IF who \in DOMAIN users THEN users[who]
                                   ELSE "none"]
     IN req' = [req EXCEPT ![s] =
          IF Falsy(TokenOf(h))
          THEN Respond(r, "401 Token missing")
          ELSE [r EXCEPT !.pc = "getUser", !.idp = TRUE]]
  /\ UNCHANGED <<store, queryHasEq, storeFailed, liked, likes0, aux>>

\* a request with a post id and the id of a user or a category
RequestOf(s, rt, h, pp, id) ==
  RequestFrom(s, [Idle EXCEPT !.route = rt, !.header = h, !.postParam = pp,
                              !.id = id])

\* a request that carries a post id only
Request(s, rt, h, pp) == RequestOf(s, rt, h, pp, "none")

\* any request to a protected route
Arrive(s) ==
  \E rt \in Routes, h \in Headers, pp \in PostParams :
    /\ rt = "admin" => pp = "1"
    /\ Request(s, rt, h, pp)
    /\ Accept(MaxAuthCalls)

\* a like toggle on post 1 or on a post that does not exist; the k-th
\* request takes slot k
ArriveToggle(s) ==
  \E h \in ToggleHeaders, pp \in {"1", "7"} :
    /\ s = calls + 1
    /\ Request(s, "toggle", h, pp)
    /\ Accept(MaxCalls)

\* a like toggle or a like status read
ArriveLike(s) ==
  \E rt \in {"toggle", "status"}, h \in LikeHeaders, pp \in LikeParams :
    /\ Request(s, rt, h, pp)
    /\ Accept(MaxSeqCalls)

\* a like toggle of user u1 on post 1
ArrivePair(s) ==
  /\ Request(s, "toggle", Header(<<"Bearer", " ", "t1">>), "1")
  /\ Accept(MaxPairCalls)

\* a request to an admin-gated route from an admin, a user, a principal
\* without a users row, or with an invalid token; the k-th request takes
\* slot k
ArriveAdmin(s) ==
  \E h \in AdminHeaders :
    /\ s = calls + 1
    /\ Request(s, "admin", h, "1")
    /\ Accept(MaxRoleCalls)

\* a like status read of user u1 on post 1; any number of them
ArriveStatus(s) ==
  /\ Request(s, "status", Header(<<"Bearer", " ", "t1">>), "1")
  /\ UNCHANGED calls

\* the answer of the middleware when auth.getUser gives no user: the catch
\* answers 500 to a thrown error, "if (error || !data.user)" answers 401 to
\* a returned one
AnswerToError(thrown) ==
  IF thrown THEN "500 Internal server error" ELSE "401 Invalid token"

\* auth.getUser returns: the identity provider could not be reached and the
\* call threw or returned an error, or it answered for the token
GetUser(s) ==
  /\ req[s].pc = "getUser"
  /\ LET r == req[s]
         who == TokenPrincipal(TokenOf(r.header).val)
     IN \/ /\ \E thrown \in BOOLEAN :
                req' = [req EXCEPT ![s] =
                          Respond([r EXCEPT !.down = TRUE], AnswerToError(thrown))]
           /\ storeFailed' = TRUE
        \/ /\ who = "nobody"
           /\ req' = [req EXCEPT ![s] = Respond(r, "401 Invalid token")]
           /\ UNCHANGED storeFailed
        \/ /\ who # "nobody"
           /\ req' = [req EXCEPT ![s] =
                        EnterHandler([r EXCEPT !.user = who, !.authed = TRUE])]
           /\ UNCHANGED storeFailed
  /\ UNCHANGED <<store, calls, queryHasEq, liked, likes0, aux>>

\* protectAdmin: the select of the caller's users row returns
SelectRole(s) ==
  /\ req[s].pc = "selectRole"
  /\ LET r == req[s]
         role == StoredRole(r.user)
         seen == [r EXCEPT !.role = role]
     IN \/ /\ req' = [req EXCEPT ![s] = Respond(r, "500 Internal server error")]
           /\ storeFailed' = TRUE
        \/ /\ req' = [req EXCEPT ![s] =
                        IF RoleAnswer(role) = "next"
                        THEN AdminEnter(seen)
                        ELSE Respond(seen, RoleAnswer(role))]
           /\ UNCHANGED storeFailed
  /\ UNCHANGED <<store, calls, queryHasEq, liked, likes0, aux>>

\* the store call of an admin-gated handler returns, and the handler
\* answers
AdminHandler(s) ==
  /\ req[s].pc = "adminHandler"
  /\ \/ Fail(s)
     \/ /\ req' = [req EXCEPT ![s] = Respond(req[s], "200")]
        /\ UNCHANGED storeFailed
  /\ UNCHANGED <<store, calls, queryHasEq, liked, likes0, aux>>

\* the role column of an admin's users row is set to user, by the owner of
\* the store
Demote(u) ==
  /\ u \in DOMAIN users
  /\ users[u] = "admin"
  /\ users' = [users EXCEPT ![u] = "user"]
  /\ UNCHANGED <<blog_posts, post_likes, notifications, req, calls,
                 queryHasEq, storeFailed, liked, likes0, aux>>

\* --------------------------------------------- DELETE /users/:id (admin)
\* a request to delete the users row of u1, of u2 or of no one, from an
\* admin or from a user
ArriveUserDelete(s) ==
  \E h \in UserDeleteHeaders, id \in UserIds :
    /\ RequestOf(s, "deleteUser", h, "1", id)
    /\ Accept(MaxUserCalls)

\* delete comments { user_id: id } returns; its answer is not looked at
DeleteUserComments(s) ==
  /\ req[s].pc = "deleteUserComments"
  /\ LET r == req[s]
     IN /\ \/ /\ storeFailed' = TRUE
              /\ UNCHANGED comments
           \/ /\ comments' = {c \in comments : c.user_id # r.id}
              /\ UNCHANGED storeFailed
        /\ req' = [req EXCEPT ![s] = [r EXCEPT !.pc = "deleteUserLikes"]]
  /\ UNCHANGED <<store, calls, queryHasEq, liked, likes0, session, passwords,
                 tbl, hop, env, note, categories, post_cat, profiles>>

\* delete post_likes { user_id: id } returns; its answer is not looked at,
\* and no likes column is written
DeleteUserLikes(s) ==
  /\ req[s].pc = "deleteUserLikes"
  /\ LET r == req[s]
     IN /\ \/ /\ storeFailed' = TRUE
              /\ UNCHANGED post_likes
           \/ /\ post_likes' = [pr \in Pairs |->
                                 IF pr[2] = r.id THEN 0 ELSE post_likes[pr]]
              /\ UNCHANGED storeFailed
        /\ req' = [req EXCEPT ![s] = [r EXCEPT !.pc = "deleteUserRow", !.mw = TRUE]]
  /\ UNCHANGED <<blog_posts, users, notifications, calls, queryHasEq, liked,
                 likes0, aux>>

\* delete users { id } returns: an error goes to the error handler, else
\* the handler answers with success
DeleteUserRow(s) ==
  /\ req[s].pc = "deleteUserRow"
  /\ LET r == req[s]
     IN \/ /\ req' = [req EXCEPT ![s] = Respond(r, "500 Internal server error")]
           /\ storeFailed' = TRUE
           /\ UNCHANGED <<users, profiles>>
        \/ /\ users' = [u \in DOMAIN users \ {r.id} |-> users[u]]
           /\ profiles' = [u \in DOMAIN profiles \ {r.id} |-> profiles[u]]
           /\ req' = [req EXCEPT ![s] = Respond(r, "200")]
           /\ UNCHANGED storeFailed
  /\ UNCHANGED <<blog_posts, post_likes, notifications, calls, queryHasEq,
                 liked, likes0, session, passwords, tbl, hop, env, note,
                 comments, categories, post_cat>>

UserDelete(s) ==
  DeleteUserComments(s) \/ DeleteUserLikes(s) \/ DeleteUserRow(s)

\* ------------------------------------------ DELETE /posts/:postId (admin)
\* a request of the admin a1 to delete post 1 or a post with no numeric id;
\* the k-th request takes slot k
ArrivePostDelete(s) ==
  \E pp \in {"1", "abc"} :
    /\ s = calls + 1
    /\ RequestOf(s, "deletePost", Header(<<"Bearer", " ", "ta">>), pp, "none")
    /\ Accept(MaxPostCalls)

\* a like toggle of u1 on post 1 while posts are deleted
ArrivePostToggle(s) ==
  /\ s = calls + 1
  /\ Request(s, "toggle", Header(<<"Bearer", " ", "t1">>), "1")
  /\ Accept(MaxPostCalls)

\* postsWithCategory && postsWithCategory.length > 0
CategoryInUse(posts) == posts # {}

\* the rows of comments and post_likes that reference post p
Referencing(cs, pl, p) ==
  Cardinality({c \in cs : c.post_id = p}) + SumRows(pl, p, Principals)

\* delete comments { post_id } returns
DeletePostComments(s) ==
  /\ req[s].pc = "deletePostComments"
  /\ LET r == req[s]
         p == ToNumber(r.postParam)
     IN \/ /\ Fail(s)
           /\ UNCHANGED comments
        \/ /\ comments' = {c \in comments : c.post_id # p}
           /\ req' = [req EXCEPT ![s] = [r EXCEPT !.pc = "deletePostLikes"]]
           /\ UNCHANGED storeFailed
  /\ UNCHANGED <<store, calls, queryHasEq, liked, likes0, session, passwords,
                 tbl, hop, env, note, categories, post_cat, profiles>>

\* delete post_likes { post_id } returns
DeletePostLikes(s) ==
  /\ req[s].pc = "deletePostLikes"
  /\ LET r == req[s]
         p == ToNumber(r.postParam)
     IN \/ /\ Fail(s)
           /\ UNCHANGED post_likes
        \/ /\ post_likes' = [pr \in Pairs |->
                                IF pr[1] = p THEN 0 ELSE post_likes[pr]]
           /\ req' = [req EXCEPT ![s] = [r EXCEPT !.pc = "deletePostRow"]]
           /\ UNCHANGED storeFailed
  /\ UNCHANGED <<blog_posts, users, notifications, calls, queryHasEq, liked,
                 likes0, aux>>

\* delete blog_posts { id } returns, and the handler answers (cw records
\* that the post row was deleted, left the rows that reference the post at
\* that moment)
DeletePostRow(s) ==
  /\ req[s].pc = "deletePostRow"
  /\ LET r == req[s]
         p == ToNumber(r.postParam)
     IN \/ /\ Fail(s)
           /\ UNCHANGED <<blog_posts, post_cat>>
        \/ /\ blog_posts' = [q \in DOMAIN blog_posts \ {p} |-> blog_posts[q]]
           /\ post_cat' = [q \in DOMAIN post_cat \ {p} |-> post_cat[q]]
           /\ req' = [req EXCEPT ![s] =
                        Respond([r EXCEPT !.cw = TRUE,
                                          !.left = Referencing(comments, post_likes, p)],
                                "200")]
           /\ UNCHANGED storeFailed
  /\ UNCHANGED <<post_likes, users, notifications, calls, queryHasEq, liked,
                 likes0, session, passwords, tbl, hop, env, note, comments,
                 categories, profiles>>

PostDelete(s) ==
  DeletePostComments(s) \/ DeletePostLikes(s) \/ DeletePostRow(s)

\* ------------------------- DELETE /categories/:categoryId, POST /posts
\* a request of the admin a1 to delete category 1, category 2 or a category
\* with no numeric id; the k-th request takes slot k
ArriveCategoryDelete(s) ==
  \E id \in {"1", "2", "abc"} :
    /\ s = calls + 1
    /\ RequestOf(s, "deleteCategory", Header(<<"Bearer", " ", "ta">>), "1", id)
    /\ Accept(MaxCategoryCalls)

\* a request of the admin a1 to create a post in category 1 or 2, or with
\* no category_id; the k-th request takes slot k
ArrivePostCreate(s) ==
  \E id \in {"1", "2", "none"} :
    /\ s = calls + 1
    /\ RequestOf(s, "createPost", Header(<<"Bearer", " ", "ta">>), "1", id)
    /\ Accept(MaxCategoryCalls)

\* the blog_posts rows whose category_id is c
PostsIn(bp, pc, c) == {p \in DOMAIN bp : pc[p] = c}

\* select categories { id } returns
SelectCategory(s) ==
  /\ req[s].pc = "selectCategory"
  /\ LET r == req[s]
     IN \/ Fail(s)
        \/ /\ req' = [req EXCEPT ![s] =
                        IF ToNumber(r.id) \in categories
                        THEN [r EXCEPT !.pc = "selectCategoryPosts",
                                       !.queried = TRUE]
                        ELSE Respond(r, "NotFoundError")]
           /\ UNCHANGED storeFailed
  /\ UNCHANGED <<store, calls, queryHasEq, liked, likes0, aux>>

\* select blog_posts { category_id } returns: 400 when a post has the
\* category, else the helper's delete is called, which throws when
\* from(table) has no eq
SelectCategoryPosts(s) ==
  /\ req[s].pc = "selectCategoryPosts"
  /\ LET r == req[s]
     IN \/ Fail(s)
        \/ /\ req' = [req EXCEPT ![s] =
                        IF CategoryInUse(PostsIn(blog_posts, post_cat, ToNumber(r.id)))
                        THEN Respond(r, "400")
                        ELSE IF queryHasEq
                        THEN [r EXCEPT !.pc = "deleteCategoryRow"]
                        ELSE Respond(r, "DatabaseError")]
           /\ UNCHANGED storeFailed
  /\ UNCHANGED <<store, calls, queryHasEq, liked, likes0, aux>>

\* delete categories { id } returns, and the handler answers (cw records
\* that the category was deleted, left the posts that have the category at
\* that moment)
DeleteCategoryRow(s) ==
  /\ req[s].pc = "deleteCategoryRow"
  /\ LET r == req[s]
         c == ToNumber(r.id)
     IN \/ /\ Fail(s)
           /\ UNCHANGED categories
        \/ /\ categories' = categories \ {c}
           /\ req' = [req EXCEPT ![s] =
                        Respond([r EXCEPT !.cw = TRUE,
                                   !.left = Cardinality(PostsIn(blog_posts, post_cat, c))],
                                "200")]
           /\ UNCHANGED storeFailed
  /\ UNCHANGED <<store, calls, queryHasEq, liked, likes0, session, passwords,
                 tbl, hop, env, note, comments, post_cat, profiles>>

CategoryDelete(s) ==
  SelectCategory(s) \/ SelectCategoryPosts(s) \/ DeleteCategoryRow(s)

\* the id the store gives the next blog_posts row
NewPostId(bp) == IF 3 \notin DOMAIN bp THEN 3 ELSE 4

\* insert blog_posts { category_id, ... } returns; the category is not
\* looked up, and likes takes the default 0
InsertPost(s) ==
  /\ req[s].pc = "insertPost"
  /\ LET r == req[s]
         n == NewPostId(blog_posts)
     IN \/ /\ Fail(s)
           /\ UNCHANGED <<blog_posts, post_cat>>
        \/ /\ blog_posts' = (n :> 0) @@ blog_posts
           /\ post_cat' = (n :> ToNumber(r.id)) @@ post_cat
           /\ req' = [req EXCEPT ![s] = Respond([r EXCEPT !.mw = TRUE], "201")]
           /\ UNCHANGED storeFailed
  /\ UNCHANGED <<post_likes, users, notifications, calls, queryHasEq, liked,
                 likes0, session, passwords, tbl, hop, env, note, comments,
                 categories, profiles>>

\* ----------------------------------------------------- POST /comments
\* a request of u1 or u2 to comment on post 1, or with no post id; the k-th
\* request takes slot k
ArriveComment(s) ==
  \E h \in ResetHeaders, pp \in {"1", ""} :
    /\ s = calls + 1
    /\ Request(s, "comment", h, pp)
    /\ Accept(MaxPostCalls)

\* the id the store gives the next comments row
NewCommentId(cs) ==
  IF \A c \in cs : c.id # "3" THEN "3" ELSE "4"

\* select users { id: userId } returns; "User not found" is thrown inside
\* the try, whose catch turns every error into DatabaseError
SelectCommenter(s) ==
  /\ req[s].pc = "selectCommenter"
  /\ LET r == req[s]
     IN \/ Fail(s)
        \/ /\ req' = [req EXCEPT ![s] =
                        IF r.user \in DOMAIN users
                        THEN [r EXCEPT !.pc = "insertComment"]
                        ELSE Respond(r, "DatabaseError")]
           /\ UNCHANGED storeFailed
  /\ UNCHANGED <<store, calls, queryHasEq, liked, likes0, aux>>

\* insert comments { post_id, user_id, ... } returns; the post is not
\* looked up
InsertComment(s) ==
  /\ req[s].pc = "insertComment"
  /\ LET r == req[s]
         p == ToNumber(r.postParam)
     IN \/ /\ Fail(s)
           /\ UNCHANGED comments
        \/ /\ comments' = comments \cup {Comment(NewCommentId(comments), p, r.user)}
           /\ req' = [req EXCEPT ![s] =
                        [r EXCEPT !.pc = "commentSelectAdmins", !.mw = TRUE]]
           /\ UNCHANGED storeFailed
  /\ UNCHANGED <<store, calls, queryHasEq, liked, likes0, session, passwords,
                 tbl, hop, env, note, categories, post_cat, profiles>>

\* select users { role: 'admin' } returns; an error is caught and dropped,
\* and the handler answers 201
CommentSelectAdmins(s) ==
  /\ req[s].pc = "commentSelectAdmins"
  /\ LET r == req[s]
         rows == AdminRows(users)
     IN \/ /\ req' = [req EXCEPT ![s] = Respond(r, "201")]
           /\ storeFailed' = TRUE
        \/ /\ req' = [req EXCEPT ![s] =
                        IF rows = <<>> THEN Respond(r, "201")
                        ELSE [r EXCEPT !.pc = "commentNotify", !.pending = rows]]
           /\ UNCHANGED storeFailed
  /\ UNCHANGED <<store, calls, queryHasEq, liked, likes0, aux>>

\* createNotification for the next admin returns, and the loop goes on or
\* the handler answers 201
CommentNotify(s) ==
  /\ req[s].pc = "commentNotify"
  /\ \E st \in StoreOutcomes :
       LET r == req[s]
           out == NotificationOutcome(config, st)
           more0 == Tail(r.pending)
           n == [r EXCEPT !.pending = IF out = "throw" THEN <<>> ELSE more0,
                          !.sent = IF out = "row" THEN @ + 1 ELSE @]
       IN /\ notifications' = IF out = "row" THEN notifications + 1
                              ELSE notifications
          /\ storeFailed' = (storeFailed \/ out # "row")
          /\ req' = [req EXCEPT ![s] =
                       IF n.pending = <<>> THEN Respond(n, "201") ELSE n]
  /\ UNCHANGED <<blog_posts, post_likes, users, calls, queryHasEq,
                 liked, likes0, aux>>

CommentCreate(s) ==
  \/ SelectCommenter(s)
  \/ InsertComment(s)
  \/ CommentSelectAdmins(s)
  \/ CommentNotify(s)

\* ------------------------------------ PUT, DELETE /comments/:commentId
\* a request of u1 or u2 to update or to delete comment 1 (of u1), comment
\* 2 (of u2), a comment that does not exist, or with the id "%"
CommentIds == {"1", "2", "9", "%"}
ArriveCommentEdit(s) ==
  \E rt \in {"updateComment", "deleteComment"}, h \in ResetHeaders,
     id \in CommentIds, b \in {"b", ""} :
    /\ rt = "deleteComment" => b = ""
    /\ RequestFrom(s, [Idle EXCEPT !.route = rt, !.header = h, !.id = id,
                                   !.body = b])
    /\ Accept(MaxCommentCalls)

\* the row-level policies of comments as seen by the client bound to the
\* token of u
CommentVisible(c, u) == commentPolicy = "open" \/ c.user_id = u

\* the rows select comments { id: commentId } returns to u: an id with '%'
\* is applied with ilike, every other id with eq
CommentsSelected(cs, id, u) ==
  { c \in cs : CommentVisible(c, u)
               /\ SelectMatch(Str(<<id>>), <<c.id>>) }

\* the rows an update or a delete of comments { id: commentId } by u is
\* applied to
CommentsWritten(cs, id, u) ==
  { c \in cs : CommentVisible(c, u) /\ EqMatch(Str(<<id>>), <<c.id>>) }

\* (a handler that does not compare the owner with the caller)
OwnCommentAny(c, u) == TRUE

\* commentData.user_id !== userId is false
OwnComment(c, u) == c.user_id = u

\* select comments { id: commentId } returns: NotFoundError without a row;
\* the first row must be the caller's, else ValidationError; then the
\* handler issues its write (the helper's delete throws when from(table)
\* has no eq)
SelectComment(s) ==
  /\ req[s].pc = "selectComment"
  /\ LET r == req[s]
         rows == CommentsSelected(comments, r.id, r.user)
     IN \/ Fail(s)
        \/ /\ rows = {}
           /\ req' = [req EXCEPT ![s] = Respond(r, "NotFoundError")]
           /\ UNCHANGED storeFailed
        \/ /\ \E c \in rows :
                LET seen == [r EXCEPT !.owner = c.user_id]
                IN req' = [req EXCEPT ![s] =
                     IF ~OwnComment(c, r.user) THEN Respond(seen, "ValidationError")
                     ELSE IF r.route = "updateComment"
                     THEN [seen EXCEPT !.pc = "updateComment"]
                     ELSE IF queryHasEq
                     THEN [seen EXCEPT !.pc = "deleteCommentRow"]
                     ELSE Respond(seen, "DatabaseError")]
           /\ UNCHANGED storeFailed
  /\ UNCHANGED <<store, calls, queryHasEq, liked, likes0, aux>>

\* the rows among those written whose user_id is not u
NotOwn(rows, u) == Cardinality({c \in rows : c.user_id # u})

\* update comments { comment } { id: commentId } returns; .single() gives
\* an error unless exactly one row was updated (mw records a write, left
\* the written rows that are not the caller's)
UpdateComment(s) ==
  /\ req[s].pc = "updateComment"
  /\ LET r == req[s]
         targets == CommentsWritten(comments, r.id, r.user)
     IN \/ /\ Fail(s)
           /\ UNCHANGED comments
        \/ /\ Cardinality(targets) # 1
           /\ req' = [req EXCEPT ![s] = Respond(r, "DatabaseError")]
           /\ UNCHANGED <<comments, storeFailed>>
        \/ /\ Cardinality(targets) = 1
           /\ comments' = { IF c \in targets THEN [c EXCEPT !.comment = r.body]
                            ELSE c : c \in comments }
           /\ req' = [req EXCEPT ![s] =
                        Respond([r EXCEPT !.mw = TRUE,
                                          !.left = NotOwn(targets, r.user)], "200")]
           /\ UNCHANGED storeFailed
  /\ UNCHANGED <<store, calls, queryHasEq, liked, likes0, session, passwords,
                 tbl, hop, env, note, categories, post_cat, profiles>>

\* delete comments { id: commentId } returns
DeleteCommentRow(s) ==
  /\ req[s].pc = "deleteCommentRow"
  /\ LET r == req[s]
         targets == CommentsWritten(comments, r.id, r.user)
     IN \/ /\ Fail(s)
           /\ UNCHANGED comments
        \/ /\ comments' = comments \ targets
           /\ req' = [req EXCEPT ![s] =
                        Respond([r EXCEPT !.mw = (targets # {}),
                                          !.left = NotOwn(targets, r.user)], "200")]
           /\ UNCHANGED storeFailed
  /\ UNCHANGED <<store, calls, queryHasEq, liked, likes0, session, passwords,
                 tbl, hop, env, note, categories, post_cat, profiles>>

CommentEdit(s) == SelectComment(s) \/ UpdateComment(s) \/ DeleteCommentRow(s)

\* --------------------------------------- PUT /profiles, POST /auth/register
\* what a client sends for a column
Sent(k) ==
  CASE k = "name" -> "n1"
    [] k = "introduction" -> "i1"
    [] k = "profile_pic" -> "p1"
    [] k = "role" -> "admin"
    [] k = "status" -> "ban"
    [] OTHER -> "x"

\* the bodies of the PUT /profiles requests that are followed: some of the
\* columns, and a name that is empty
ProfileColumnSets ==
  { {}, {"name"}, {"introduction"}, {"name", "profile_pic"}, {"role"},
    {"name", "role"}, {"introduction", "username", "status"} }
ProfileBodies ==
  { [k \in cols |-> Sent(k)] : cols \in ProfileColumnSets }
    \cup { [k \in {"name", "role"} |-> IF k = "name" THEN "" ELSE "admin"] }

\* a request of u1 or u2 to update the own profile
ArriveProfile(s) ==
  \E h \in ResetHeaders, b \in ProfileBodies :
    /\ RequestFrom(s, [Idle EXCEPT !.route = "updateProfile", !.header = h,
                                   !.fields = b])
    /\ Accept(MaxProfileCalls)

\* (a handler that passes the whole body on to the update)
UpdateDataWholeBody(b) == b

\* updateData: name when it is given and not empty, introduction and
\* profile_pic when they are given; nothing else of the body
UpdateData(b) ==
  [k \in {c \in {"name", "introduction", "profile_pic"} \cap DOMAIN b :
             c = "name" => b[c] # ""} |-> b[k]]

\* select users { id: user.id } returns: 404 without a row, 400 when
\* updateData is empty, else the update is issued
SelectProfile(s) ==
  /\ req[s].pc = "selectProfile"
  /\ LET r == req[s]
     IN \/ /\ req' = [req EXCEPT ![s] = Respond(r, "500")]
           /\ storeFailed' = TRUE
        \/ /\ req' = [req EXCEPT ![s] =
                        IF r.user \notin DOMAIN users THEN Respond(r, "404")
                        ELSE IF DOMAIN UpdateData(r.fields) = {}
                        THEN Respond(r, "400")
                        ELSE [r EXCEPT !.pc = "updateProfile"]]
           /\ UNCHANGED storeFailed
  /\ UNCHANGED <<store, calls, queryHasEq, liked, likes0, aux>>

\* update users updateData { id: user.id } returns: the columns of
\* updateData are written to the caller's row
UpdateProfile(s) ==
  /\ req[s].pc = "updateProfile"
  /\ LET r == req[s]
         u == r.user
         data == UpdateData(r.fields)
     IN \/ /\ req' = [req EXCEPT ![s] = Respond(r, "500")]
           /\ storeFailed' = TRUE
           /\ UNCHANGED <<users, profiles>>
        \/ /\ u \notin DOMAIN users
           /\ req' = [req EXCEPT ![s] = Respond(r, "500")]
           /\ UNCHANGED <<users, profiles, storeFailed>>
        \/ /\ u \in DOMAIN users
           /\ users' = IF "role" \in DOMAIN data
                       THEN [users EXCEPT ![u] = data["role"]]
                       ELSE users
           /\ profiles' =
                [profiles EXCEPT ![u] =
                   [k \in DOMAIN profiles[u] |->
                      IF k \in DOMAIN data THEN data[k] ELSE profiles[u][k]]]
           /\ req' = [req EXCEPT ![s] = Respond([r EXCEPT !.mw = TRUE], "200")]
           /\ UNCHANGED storeFailed
  /\ UNCHANGED <<blog_posts, post_likes, notifications, calls, queryHasEq,
                 liked, likes0, session, passwords, tbl, hop, env, note,
                 comments, categories, post_cat>>

\* the bodies of the register requests that are followed: a username that
\* is taken or free, an email that is registered or new, with or without a
\* role
RegisterBodies ==
  { [username |-> "u1"], [username |-> "n1"],
    [username |-> "n1", role |-> "admin"] }
RegisterEmails == {"u1", "n1"}

\* a register request; no middleware, the handler calls the client of
\* getSupabase()
ArriveRegister(s) ==
  /\ req[s].pc \in {"idle", "done"}
  /\ \E b \in RegisterBodies, e \in RegisterEmails :
       req' = [req EXCEPT ![s] =
                 [Idle EXCEPT !.route = "register", !.pc = "registerCheck",
                              !.handler = TRUE, !.email = e, !.fields = b,
                              !.client = ClientFor("register")]]
  /\ Accept(MaxProfileCalls)
  /\ UNCHANGED <<store, queryHasEq, storeFailed, liked, likes0, aux>>

\* select users { username } returns: 400 when a row came back; a failed
\* call is not looked at and the handler goes on
RegisterCheck(s) ==
  /\ req[s].pc = "registerCheck"
  /\ LET r == req[s]
         taken == \E u \in DOMAIN profiles :
                    profiles[u].username = r.fields.username
     IN \/ /\ req' = [req EXCEPT ![s] = [r EXCEPT !.pc = "signUp"]]
           /\ storeFailed' = TRUE
        \/ /\ req' = [req EXCEPT ![s] =
                        IF taken THEN Respond(r, "400")
                        ELSE [r EXCEPT !.pc = "signUp"]]
           /\ UNCHANGED storeFailed
  /\ UNCHANGED <<store, calls, queryHasEq, liked, likes0, aux>>

\* auth.signUp({ email, password }) returns: an error for a registered
\* email or a failed call, else the new account, which the client may now
\* hold the session of
SignUp(s) ==
  /\ req[s].pc = "signUp"
  /\ LET r == req[s]
     IN \/ /\ req' = [req EXCEPT ![s] = Respond(r, "400")]
           /\ storeFailed' = TRUE
           /\ UNCHANGED <<passwords, session>>
        \/ /\ r.email \in DOMAIN passwords
           /\ req' = [req EXCEPT ![s] = Respond(r, "400")]
           /\ UNCHANGED <<passwords, session, storeFailed>>
        \/ /\ r.email \notin DOMAIN passwords
           /\ passwords' = (r.email :> "old") @@ passwords
           /\ session' \in {session, r.email}
           /\ req' = [req EXCEPT ![s] =
                        [r EXCEPT !.pc = "insertUser", !.target = r.email]]
           /\ UNCHANGED storeFailed
  /\ UNCHANGED <<store, calls, queryHasEq, liked, likes0, tbl, hop, more>>

\* role: "user" in the inserted row
RegisteredRole(b) == "user"

\* insert users { id, username, name, role } returns
InsertUser(s) ==
  /\ req[s].pc = "insertUser"
  /\ LET r == req[s]
         id == r.target
     IN \/ /\ req' = [req EXCEPT ![s] = Respond(r, "500")]
           /\ storeFailed' = TRUE
           /\ UNCHANGED <<users, profiles>>
        \/ /\ id \in DOMAIN users
           /\ req' = [req EXCEPT ![s] = Respond(r, "500")]
           /\ UNCHANGED <<users, profiles, storeFailed>>
        \/ /\ id \notin DOMAIN users
           /\ users' = (id :> RegisteredRole(r.fields)) @@ users
           /\ profiles' = (id :> Profile(r.fields.username)) @@ profiles
           /\ req' = [req EXCEPT ![s] = Respond([r EXCEPT !.mw = TRUE], "201")]
           /\ UNCHANGED storeFailed
  /\ UNCHANGED <<blog_posts, post_likes, notifications, calls, queryHasEq,
                 liked, likes0, session, passwords, tbl, hop, env, note,
                 comments, categories, post_cat>>

ProfileUpdate(s) == SelectProfile(s) \/ UpdateProfile(s)
Register(s) == RegisterCheck(s) \/ SignUp(s) \/ InsertUser(s)

\* ----------------------------------- POST /auth/login, /auth/reset-password
\* a login request for the account of u1 or u2; no middleware, the handler
\* calls signInWithPassword on the client of getSupabase(); the k-th
\* request takes slot k
ArriveLogin(s) ==
  /\ s = calls + 1
  /\ req[s].pc \in {"idle", "done"}
  /\ \E e \in Accounts :
       req' = [req EXCEPT ![s] =
                 [Idle EXCEPT !.route = "login", !.pc = "signIn",
                              !.handler = TRUE, !.email = e,
                              !.client = ClientFor("login")]]
  /\ Accept(MaxSessionCalls)
  /\ UNCHANGED <<store, queryHasEq, storeFailed, liked, likes0, aux>>

\* a reset-password request of u1 or u2, behind protectUser; the k-th
\* request takes slot k
ArriveReset(s) ==
  \E h \in ResetHeaders :
    /\ s = calls + 1
    /\ Request(s, "reset", h, "1")
    /\ Accept(MaxSessionCalls)

\* signInWithPassword({ email, password }) returns: with the right password
\* the client of getSupabase() holds the session of that account from now
\* on; login answers with the access token, reset-password goes on to
\* updateUser
SignIn(s) ==
  /\ req[s].pc = "signIn"
  /\ LET r == req[s]
     IN \E pw \in PasswordsSent :
          IF passwords[r.email] = pw
          THEN /\ session' = r.email
               /\ req' = [req EXCEPT ![s] =
                            IF r.route = "login" THEN Respond(r, "200")
                            ELSE [r EXCEPT !.pc = "updateUser"]]
          ELSE /\ req' = [req EXCEPT ![s] = Respond(r, "400")]
               /\ UNCHANGED session
  /\ UNCHANGED <<store, calls, queryHasEq, storeFailed, liked, likes0,
                 passwords, tbl, hop, more>>

\* updateUser({ password: newPassword }) returns: the call names no
\* account, it changes the password of the session the client holds
UpdateUser(s) ==
  /\ req[s].pc = "updateUser"
  /\ LET r == req[s]
     IN \/ /\ req' = [req EXCEPT ![s] = Respond(r, "400")]
           /\ storeFailed' = TRUE
           /\ UNCHANGED passwords
        \/ /\ session # "anon"
           /\ passwords' = [passwords EXCEPT ![session] = "new"]
           /\ req' = [req EXCEPT ![s] =
                        Respond([r EXCEPT !.target = session], "200")]
           /\ UNCHANGED storeFailed
  /\ UNCHANGED <<store, calls, queryHasEq, liked, likes0, session, tbl, hop,
                 more>>

\* ------------------------------------------- POST /likes/:postId (toggle)
\* (a handler that writes the counter before the membership row)
CounterWriteFirst(r, exists) ==
  [r EXCEPT !.pc = "updateCounter", !.cw = TRUE,
            !.branch = IF exists THEN "unlike" ELSE "like",
            !.newCount = IF exists THEN Decrement(r.cur) ELSE Increment(r.cur)]

\* the membership write the handler issues after reading existingLike;
\* SupabaseRlsHelper.delete throws before any call when from(table) has no eq
IssueMembershipWrite(r, exists) ==
  IF exists
  THEN IF queryHasEq
       THEN [r EXCEPT !.pc = "deleteLike", !.branch = "unlike"]
       ELSE Respond([r EXCEPT !.branch = "unlike"], "DatabaseError")
  ELSE [r EXCEPT !.pc = "insertLike", !.branch = "like"]

\* the counter write the handler issues once the membership write returned
IssueCounterWrite(r, n) ==
  [r EXCEPT !.pc = "updateCounter", !.newCount = n, !.cw = TRUE]

\* select blog_posts { id: postId } returns
SelectPost(s) ==
  /\ req[s].pc = "selectPost"
  /\ LET r == req[s]
         p == ToNumber(r.postParam)
     IN \/ Fail(s)
        \/ /\ ~PostFound(p)
           /\ req' = [req EXCEPT ![s] = Respond(r, "NotFoundError")]
           /\ UNCHANGED storeFailed
        \/ /\ PostFound(p)
           /\ req' = [req EXCEPT ![s] =
                        [r EXCEPT !.pc = "selectLike", !.cur = LikesOf(p)]]
           /\ UNCHANGED storeFailed
  /\ UNCHANGED <<store, calls, queryHasEq, liked, likes0, aux>>

\* select post_likes { post_id, user_id } returns
SelectLike(s) ==
  /\ req[s].pc = "selectLike"
  /\ LET r == req[s]
         pr == <<ToNumber(r.postParam), r.user>>
     IN \/ Fail(s)
        \/ /\ req' = [req EXCEPT ![s] =
                        IssueMembershipWrite(r, Rows(pr) > 0)]
           /\ UNCHANGED storeFailed
  /\ UNCHANGED <<store, calls, queryHasEq, liked, likes0, aux>>

\* the number of rows of the pair once the membership write has set it to n
\* (rowAfter records it in the request)
RowsAfter(pl, pr, n) == [pl EXCEPT ![pr] = n][pr]

\* delete post_likes { post_id, user_id } returns
DeleteLike(s) ==
  /\ req[s].pc = "deleteLike"
  /\ LET r == req[s]
         pr == <<ToNumber(r.postParam), r.user>>
     IN \/ /\ Fail(s)
           /\ UNCHANGED post_likes
        \/ /\ post_likes' = [post_likes EXCEPT ![pr] = 0]
           /\ req' = [req EXCEPT ![s] =
                        IssueCounterWrite(
                          [r EXCEPT !.mw = TRUE,
                                    !.rowAfter = RowsAfter(post_likes, pr, 0) > 0],
                          Decrement(r.cur))]
           /\ UNCHANGED storeFailed
  /\ UNCHANGED <<blog_posts, users, notifications, calls, queryHasEq,
                 liked, likes0, aux>>

\* insert post_likes { post_id, user_id } returns
InsertLike(s) ==
  /\ req[s].pc = "insertLike"
  /\ LET r == req[s]
         pr == <<ToNumber(r.postParam), r.user>>
     IN \/ /\ Fail(s)
           /\ UNCHANGED post_likes
        \/ /\ post_likes' = [post_likes EXCEPT ![pr] = @ + 1]
           /\ req' = [req EXCEPT ![s] =
                        IssueCounterWrite(
                          [r EXCEPT !.mw = TRUE,
                                    !.rowAfter =
                                      RowsAfter(post_likes, pr, post_likes[pr] + 1) > 0],
                          Increment(r.cur))]
           /\ UNCHANGED storeFailed
  /\ UNCHANGED <<blog_posts, users, notifications, calls, queryHasEq,
                 liked, likes0, aux>>

\* (a handler that answers with the membership it read before its write)
LikedAfterStale(branch) == branch = "unlike"

\* isLiked as the handler sets it after the counter write of its branch
LikedAfter(branch) == branch = "like"

\* (a handler that catches the error of the counter update and goes on)
CounterFailedIgnored(r) ==
  IF r.branch = "like"
  THEN [r EXCEPT !.failed = "updateCounter", !.pc = "selectAdmins"]
  ELSE Respond([r EXCEPT !.failed = "updateCounter"], "200")

\* the counter update threw: the catch of the handler turns the error into
\* DatabaseError (failed records the call that threw)
CounterFailed(r) ==
  Respond([r EXCEPT !.failed = "updateCounter"], "DatabaseError")

\* update blog_posts { likes: newLikeCount } { id: postId } returns (stored
\* records the value now in the likes column); on the like branch the
\* handler goes on to the notification
UpdateCounter(s) ==
  /\ req[s].pc = "updateCounter"
  /\ LET r == req[s]
         p == ToNumber(r.postParam)
     IN \/ /\ req' = [req EXCEPT ![s] = CounterFailed(r)]
           /\ storeFailed' = TRUE
           /\ UNCHANGED <<blog_posts, liked>>
        \/ /\ p \in DOMAIN blog_posts
           /\ blog_posts' = [blog_posts EXCEPT ![p] = r.newCount]
           /\ LET w == [r EXCEPT !.isLiked = LikedAfter(r.branch),
                                  !.stored = [blog_posts EXCEPT ![p] = r.newCount][p]]
              IN IF r.branch = "unlike"
                 THEN /\ req' = [req EXCEPT ![s] = Respond(w, "200")]
                      /\ UNCHANGED liked
                 ELSE /\ req' = [req EXCEPT ![s] = [w EXCEPT !.pc = "selectAdmins"]]
                      /\ liked' = liked + 1
           /\ UNCHANGED storeFailed
  /\ UNCHANGED <<post_likes, users, notifications, calls, queryHasEq,
                 likes0, aux>>

\* (a handler that passes a notification error on to its outer catch)
NotificationFailedRethrown(r) == Respond(r, "DatabaseError")

\* the catch around the notification: the error is logged and dropped, and
\* the handler answers 200 with what the toggle wrote
NotificationFailed(r) == Respond([r EXCEPT !.pending = <<>>], "200")

\* select users { role: 'admin' } returns; an error is caught and dropped
SelectAdmins(s) ==
  /\ req[s].pc = "selectAdmins"
  /\ LET r == req[s]
         rows == AdminRows(users)
     IN \/ /\ req' = [req EXCEPT ![s] = NotificationFailed(r)]
           /\ storeFailed' = TRUE
        \/ /\ req' = [req EXCEPT ![s] =
                        IF rows = <<>> THEN Respond(r, "200")
                        ELSE [r EXCEPT !.pc = "selectLiker", !.pending = rows]]
           /\ UNCHANGED storeFailed
  /\ UNCHANGED <<store, calls, queryHasEq, liked, likes0, aux>>

\* select users { id: userId } returns
SelectLiker(s) ==
  /\ req[s].pc = "selectLiker"
  /\ LET r == req[s]
     IN \/ /\ req' = [req EXCEPT ![s] = NotificationFailed(r)]
           /\ storeFailed' = TRUE
        \/ /\ req' = [req EXCEPT ![s] =
                        IF r.user \in DOMAIN users
                        THEN [r EXCEPT !.pc = "createNotification"]
                        ELSE Respond([r EXCEPT !.pending = <<>>], "200")]
           /\ UNCHANGED storeFailed
  /\ UNCHANGED <<store, calls, queryHasEq, liked, likes0, aux>>

\* (a loop that stops after the first admin)
NextAdminBreak(r) == Respond([r EXCEPT !.pending = <<>>], "200")

\* the loop over adminUsers moves on, or the handler answers
NextAdmin(r) ==
  LET rest == Tail(r.pending)
  IN IF rest = <<>> THEN Respond([r EXCEPT !.pending = rest], "200")
     ELSE [r EXCEPT !.pending = rest]

\* createNotification for the next admin returns: the row, or null, and
\* the loop goes on; or it throws into the catch around the notification
CreateNotification(s) ==
  /\ req[s].pc = "createNotification"
  /\ \E st \in StoreOutcomes :
       LET r == req[s]
           out == NotificationOutcome(config, st)
       IN /\ notifications' = IF out = "row" THEN notifications + 1
                              ELSE notifications
          /\ storeFailed' = (storeFailed \/ out # "row")
          /\ req' = [req EXCEPT ![s] =
                       CASE out = "row" -> NextAdmin([r EXCEPT !.sent = @ + 1])
                         [] out = "null" -> NextAdmin(r)
                         [] OTHER -> NotificationFailed(r)]
  /\ UNCHANGED <<blog_posts, post_likes, users, calls, queryHasEq,
                 liked, likes0, aux>>

\* createNotification is called for the user u, on its own
CallCreateNotification(u, st) ==
  /\ Accept(MaxNotifyCalls)
  /\ LET out == NotificationOutcome(config, st)
     IN /\ note' = [user |-> u, store |-> st, out |-> out]
        /\ notifications' = IF out = "row" THEN notifications + 1
                            ELSE notifications
  /\ UNCHANGED <<blog_posts, post_likes, users, req, queryHasEq, storeFailed,
                 liked, likes0, session, passwords, tbl, hop, env, tables>>

\* -------------------------------------------- GET /likes/:postId (status)
\* select post_likes { post_id, user_id } returns
StatusUserLike(s) ==
  /\ req[s].pc = "statusUserLike"
  /\ LET r == req[s]
         pr == <<ToNumber(r.postParam), r.user>>
     IN \/ Fail(s)
        \/ /\ req' = [req EXCEPT ![s] =
                        [r EXCEPT !.pc = "statusTotal",
                                  !.isLiked = Rows(pr) > 0]]
           /\ UNCHANGED storeFailed
  /\ UNCHANGED <<store, calls, queryHasEq, liked, likes0, aux>>

\* select post_likes { post_id } returns; the handler answers with the count
StatusTotal(s) ==
  /\ req[s].pc = "statusTotal"
  /\ LET r == req[s]
         p == ToNumber(r.postParam)
     IN \/ Fail(s)
        \/ /\ req' = [req EXCEPT ![s] =
                        Respond([r EXCEPT !.newCount =
                                   IF p \in PostIds THEN RowCount(p) ELSE 0], "200")]
           /\ UNCHANGED storeFailed
  /\ UNCHANGED <<store, calls, queryHasEq, liked, likes0, aux>>

\* ------------------------------------------------------- specifications
Auth(s) == GetUser(s) \/ SelectRole(s) \/ AdminHandler(s)

Toggle(s) ==
  \/ SelectPost(s)
  \/ SelectLike(s)
  \/ DeleteLike(s)
  \/ InsertLike(s)
  \/ UpdateCounter(s)
  \/ SelectAdmins(s)
  \/ SelectLiker(s)
  \/ CreateNotification(s)

Status(s) == StatusUserLike(s) \/ StatusTotal(s)

\* like toggles that interleave at their awaited calls
Next ==
  \E s \in Slots :
    ArriveToggle(s) \/ GetUser(s) \/ Toggle(s)
Spec == Init /\ [][Next]_vars

\* like requests one at a time
NextSeq == ArriveLike(1) \/ GetUser(1) \/ Toggle(1) \/ Status(1)
SpecSeq == Init /\ [][NextSeq]_vars

\* toggles of one pair, one at a time, nothing else running
NextPair == ArrivePair(1) \/ GetUser(1) \/ Toggle(1)
SpecPair == Init /\ [][NextPair]_vars

\* every header on every protected route, one request at a time
NextAuth ==
  Arrive(1) \/ Auth(1) \/ Toggle(1) \/ Status(1)
SpecAuth == Init /\ [][NextAuth]_vars

\* requests to admin-gated routes that interleave, while admins lose
\* their role
NextRole ==
  \/ \E s \in Slots : ArriveAdmin(s) \/ Auth(s)
  \/ \E u \in DOMAIN FirstUsers : Demote(u)
SpecRole == Init /\ [][NextRole]_vars

\* login and reset-password requests that interleave
NextSession ==
  \E s \in Slots :
    ArriveLogin(s) \/ ArriveReset(s) \/ GetUser(s) \/ SignIn(s) \/ UpdateUser(s)
SpecSession == Init /\ [][NextSession]_vars

\* calls of the store helper, one after the other
NextHelper ==
  \E f \in Filters, cred \in Credentials :
    HelperSelect(f, cred) \/ HelperUpdate(f, cred) \/ HelperDelete(f, cred)
SpecHelper == InitHelper /\ [][NextHelper]_vars

\* the process runs with or without its configuration
InitNotify ==
  /\ post_likes = [pr \in Pairs |-> 0]
  /\ blog_posts = [p \in PostIds |-> 0]
  /\ likes0 = [p \in PostIds |-> 0]
  /\ users = FirstUsers
  /\ notifications = 0
  /\ req = [s \in Slots |-> Idle]
  /\ calls = 0
  /\ queryHasEq = FALSE
  /\ storeFailed = FALSE
  /\ liked = 0
  /\ session = "anon"
  /\ passwords = [u \in Principals |-> "old"]
  /\ tbl = {}
  /\ hop = NoCall
  /\ config \in BOOLEAN
  /\ commentPolicy = "own"
  /\ note = NoNote
  /\ InitRest

\* calls of createNotification, one after the other
NextNotify ==
  \E u \in Principals, st \in StoreOutcomes : CallCreateNotification(u, st)
SpecNotify == InitNotify /\ [][NextNotify]_vars

\* deletions of users, one at a time, in a store where every likes column
\* equals its row count
NextUsers ==
  ArriveUserDelete(1) \/ GetUser(1) \/ SelectRole(1) \/ UserDelete(1)
SpecUsers == Init /\ [][NextUsers]_vars

\* deletions of post 1 that interleave with like toggles and comment
\* creations for it
NextPosts ==
  \E s \in Slots :
    \/ ArrivePostDelete(s) \/ ArrivePostToggle(s) \/ ArriveComment(s)
    \/ GetUser(s) \/ SelectRole(s)
    \/ PostDelete(s) \/ Toggle(s) \/ CommentCreate(s)
SpecPosts == Init /\ [][NextPosts]_vars

\* deletions of categories that interleave with creations of posts
NextCategories ==
  \E s \in Slots :
    \/ ArriveCategoryDelete(s) \/ ArrivePostCreate(s)
    \/ GetUser(s) \/ SelectRole(s)
    \/ CategoryDelete(s) \/ InsertPost(s)
SpecCategories == Init /\ [][NextCategories]_vars

\* updates and deletions of comments, one at a time
NextComments == ArriveCommentEdit(1) \/ GetUser(1) \/ CommentEdit(1)
SpecComments == InitComments /\ [][NextComments]_vars

\* registrations and profile updates, one at a time
NextProfiles ==
  \/ ArriveProfile(1) \/ ArriveRegister(1)
  \/ GetUser(1) \/ ProfileUpdate(1) \/ Register(1)
SpecProfiles == Init /\ [][NextProfiles]_vars

\* toggles of one pair and any number of like status reads, one at a
\* time; every call that can succeed infinitely often does
NextHeal ==
  ArrivePair(1) \/ ArriveStatus(1) \/ GetUser(1) \/ Toggle(1) \/ Status(1)
SpecHeal ==
  /\ Init
  /\ [][NextHeal]_vars
  /\ WF_vars(NextHeal)
  /\ SF_vars(GetUser(1) /\ req'[1].authed)
  /\ SF_vars(StatusUserLike(1) /\ req'[1].pc = "statusTotal")
  /\ SF_vars(StatusTotal(1) /\ req'[1].result = "200")

\* ------------------------------------------------------------ properties
\* the likes column of post p equals the number of its post_likes rows
Consistent(p) == blog_posts[p] = RowCount(p)

\* C1: when like requests run one at a time and no store call has failed,
\* every post's likes column equals the number of its post_likes rows
\* whenever no request is in flight.
C1_SequentialTogglesKeepCounter ==
  (Quiescent /\ ~storeFailed) => \A p \in PostIds : Consistent(p)

\* two toggles have completed one after the other, none failed
C1_Witness ==
  /\ ~storeFailed
  /\ liked >= 2
  /\ req[1].pc = "done" /\ req[1].route = "toggle" /\ req[1].result = "200"
  /\ \A p \in PostIds : Consistent(p)

C3_ToggleParity ==
  (Quiescent /\ ~storeFailed) =>
    IF calls % 2 = 0
    THEN post_likes[<<1, "u1">>] = 0 /\ blog_posts[1] = likes0[1]
    ELSE post_likes[<<1, "u1">>] = 1 /\ blog_posts[1] = likes0[1] + 1

\* a toggle wrote the membership row and its counter update failed
CounterUpdateFailed(s) ==
  /\ req[s].pc = "done" /\ req[s].route = "toggle"
  /\ req[s].mw /\ req[s].result = "DatabaseError"

\* C4: once a toggle has written the membership row and failed to update
\* the counter, leaving the likes column of post 1 different from its row
\* count, the likes column eventually equals the row count again.
C4_DivergenceHeals ==
  (CounterUpdateFailed(1) /\ ~Consistent(1)) ~> Consistent(1)

\* C5: in every toggle, on both branches, the counter write is issued only
\* after the membership write of the same request has returned.
C5_MembershipBeforeCounter ==
  \A s \in Slots :
    (req[s].cw \/ req[s].pc = "updateCounter") => req[s].mw

\* one toggle on each branch is waiting for its counter write, the
\* membership rows already written
C5_Witness ==
  /\ \A s \in Slots : req[s].pc = "updateCounter" /\ req[s].mw
  /\ req[1].branch = "like" /\ req[2].branch = "unlike"
  /\ post_likes[<<1, "u1">>] = 1 /\ post_likes[<<1, "u2">>] = 0

\* the toggle in slot s is for a post id that has no blog_posts row
MissingPost(s) ==
  /\ req[s].route = "toggle" /\ req[s].authed
  /\ ToNumber(req[s].postParam) # NaN
  /\ ToNumber(req[s].postParam) \notin DOMAIN blog_posts

\* C6: a toggle for a post id with no row ends with NotFoundError (or with
\* DatabaseError when the read of the post itself failed), and it writes no
\* post_likes row, no likes column and no notification.
C6_MissingPostNotFound ==
  \A s \in Slots :
    MissingPost(s) =>
      /\ ~req[s].mw /\ ~req[s].cw /\ req[s].sent = 0
      /\ req[s].pc \in {"selectPost", "done"}
      /\ req[s].pc = "done" =>
           req[s].result \in {"NotFoundError", "DatabaseError"}
      /\ (req[s].pc = "done" /\ ~storeFailed) => req[s].result = "NotFoundError"

\* a toggle on post 7 was answered NotFoundError and the store is as at start
C6_Witness ==
  /\ MissingPost(1) /\ req[1].pc = "done" /\ req[1].result = "NotFoundError"
  /\ calls = 1 /\ notifications = 0
  /\ \A p \in PostIds : blog_posts[p] = likes0[p]

\* the number of users rows with role admin
AdminCount == Len(AdminRows(users))

C8_UniquePerPair ==
  \A pr \in Pairs : post_likes[pr] <= 1

\* C9: the likes column of a post is never negative.
C9_LikesNonNegative ==
  \A p \in DOMAIN blog_posts : blog_posts[p] >= 0

\* an unlike that read a counter of 0 has written the counter, which is 0
C9_Witness ==
  \E s \in Slots :
    /\ req[s].branch = "unlike" /\ req[s].cur = 0
    /\ req[s].pc = "done" /\ req[s].result = "200"
    /\ blog_posts[ToNumber(req[s].postParam)] = 0

\* the header carries no token: absent, or "Bearer" with nothing after it
TokenMissing(h) ==
  h \in {NoHeader, Header(<<"Bearer">>), Header(<<"Bearer", " ">>)}

\* C10: a request through protectUser or protectAdmin queries no table and
\* runs no handler step unless the identity provider accepted its token; a
\* request without a token is answered 401 without the identity provider
\* being called, and one with an invalid token is answered 401 (500 when
\* the provider call itself fails) without any table being queried.
C10_CredentialCheckFirst ==
  \A s \in Slots :
    LET r == req[s]
        tok == TokenOf(r.header).val
    IN r.pc # "idle" =>
         /\ (r.queried \/ r.handler) =>
              /\ r.idp /\ r.authed
              /\ ~TokenMissing(r.header)
              /\ TokenPrincipal(tok) # "nobody"
         /\ TokenMissing(r.header) =>
              /\ r.pc = "done" /\ r.result = "401 Token missing"
              /\ ~r.idp
         /\ (~TokenMissing(r.header) /\ TokenPrincipal(tok) = "nobody"
               /\ r.pc = "done") =>
              /\ r.result \in {"401 Invalid token", "500 Internal server error"}
              /\ ~storeFailed => r.result = "401 Invalid token"

\* protectAdmin answered 401 to an invalid token, after the identity
\* provider was called and before any table was queried
C10_Witness ==
  /\ req[1].route = "admin" /\ req[1].pc = "done"
  /\ req[1].result = "401 Invalid token"
  /\ req[1].idp /\ ~req[1].queried /\ ~req[1].handler

\* the answers with which protectAdmin ends a request itself
Rejections ==
  { "401 Token missing", "401 Invalid token", "404 User role not found",
    "403 Forbidden", "500 Internal server error" }

\* the identity provider accepts the token of the request in slot s
TokenAccepted(s) ==
  TokenPrincipal(TokenOf(req[s].header).val) # "nobody"

\* C11: the handler of an admin-gated route runs only if the identity
\* provider accepted the token, the principal has a users row and the role
\* of that row is admin; a request for which one of the three does not hold
\* ends with an answer of the gate and its handler never runs.
C11_AdminGate ==
  \A s \in Slots :
    LET r == req[s]
        admitted == /\ TokenAccepted(s) /\ r.authed
                    /\ r.user = TokenPrincipal(TokenOf(r.header).val)
                    /\ r.user \in DOMAIN users
                    /\ users[r.user] = "admin"
    IN r.route = "admin" =>
         /\ r.handler => admitted
         /\ (r.pc = "done" /\ ~admitted) =>
              ~r.handler /\ r.result \in Rejections

\* the handler of an admin-gated route ran and answered for the admin a1
C11_Witness ==
  /\ req[1].route = "admin" /\ req[1].pc = "done" /\ req[1].result = "200"
  /\ req[1].handler /\ req[1].user = "a1" /\ users["a1"] = "admin"

\* C12: a request with a valid token to an admin-gated route is answered 404
\* and never 403 when the principal has no users row, and 403 when the row
\* has role user (500 in both cases when the role lookup itself fails).
C12_MissingRowNotFound ==
  \A s \in Slots :
    LET r == req[s]
    IN (r.route = "admin" /\ r.authed /\ r.pc = "done") =>
         /\ r.user \notin DOMAIN users =>
              /\ r.result \in {"404 User role not found",
                               "500 Internal server error"}
              /\ ~storeFailed => r.result = "404 User role not found"
         /\ (r.user \in DOMAIN users /\ r.role0 = "user") =>
              /\ r.result \in {"403 Forbidden", "500 Internal server error"}
              /\ ~storeFailed => r.result = "403 Forbidden"

\* a principal without a users row was answered 404 and a principal with
\* role user 403, no call having failed
C12_Witness ==
  /\ ~storeFailed
  /\ req[1].route = "admin" /\ req[1].user = "g1" /\ req[1].pc = "done"
  /\ req[1].result = "404 User role not found"
  /\ req[2].route = "admin" /\ req[2].user = "u1" /\ req[2].pc = "done"
  /\ req[2].result = "403 Forbidden"

\* C13: the gate takes the role from the users table during the request:
\* once the stored role of a principal whose token was issued to an admin
\* is user, every request arriving after that with the same token is
\* answered 403 (500 or 401 when a call of the gate fails) and its handler
\* does not run.
C13_RoleReadEachRequest ==
  \A s \in Slots :
    LET r == req[s]
        who == TokenPrincipal(TokenOf(r.header).val)
    IN ( /\ r.route = "admin" /\ r.pc # "idle"
         /\ TokenRole(who) = "admin" /\ r.role0 = "user" ) =>
         /\ ~r.handler /\ r.client # "service"
         /\ r.pc = "done" =>
              /\ r.result \in {"403 Forbidden", "500 Internal server error",
                               "401 Invalid token"}
              /\ ~storeFailed => r.result = "403 Forbidden"

\* the admin a1 was admitted, then lost the role, and a later request with
\* the same token was answered 403
C13_Witness ==
  /\ ~storeFailed
  /\ req[1].user = "a1" /\ req[1].pc = "done" /\ req[1].result = "200"
  /\ req[1].role0 = "admin" /\ req[1].handler
  /\ req[2].user = "a1" /\ req[2].pc = "done"
  /\ req[2].result = "403 Forbidden" /\ req[2].role0 = "user"
  /\ req[2].header = req[1].header
  /\ users["a1"] = "user"

\* the header is "Bearer <token>" with a token that is not empty
BearerForm(h) ==
  /\ h.present
  /\ Len(h.chars) = 3
  /\ h.chars[1] = "Bearer" /\ h.chars[2] = " " /\ h.chars[3] # " "

\* C14: the middleware extracts a token, and calls the identity provider
\* with it, exactly when the Authorization header has the form
\* "Bearer <token>" with a token that is not empty.
C14_TokenIffBearer ==
  \A s \in Slots :
    req[s].pc # "idle" => (req[s].idp <=> BearerForm(req[s].header))

\* C15: a request whose token the identity provider refuses is answered 401,
\* and a request during which the identity provider could not be reached is
\* answered 500, never 401.
C15_UpstreamIsNot401 ==
  \A s \in Slots :
    LET r == req[s]
    IN (r.pc = "done" /\ r.idp) =>
         /\ (~r.down /\ ~TokenAccepted(s)) => r.result = "401 Invalid token"
         /\ r.down => r.result = "500 Internal server error"

\* C17: a store call is made with the service-role client only by the
\* handler of an admin-gated route, in a request that protectAdmin let
\* through: token accepted, users row read, role admin.
C17_ServiceRoleBehindGate ==
  \A s \in Slots :
    LET r == req[s]
    IN /\ r.client = "service" =>
            /\ r.route = "admin" /\ r.handler
            /\ r.authed /\ r.role = "admin"
            /\ r.user \in DOMAIN users /\ users[r.user] = "admin"
       /\ (r.route # "admin" /\ r.queried) => r.client = "token"

\* the handler of an admin-gated route is waiting for its service-role call
C17_Witness ==
  /\ req[1].pc = "adminHandler" /\ req[1].client = "service"
  /\ req[1].user = "a1" /\ req[1].role = "admin"

\* C16: no client state is shared between requests: a reset-password
\* request changes the password of its own caller, whoever signs in through
\* the client of getSupabase() in another request meanwhile.
C16_NoSharedSession ==
  \A s \in Slots :
    (req[s].route = "reset" /\ req[s].target # "nobody") =>
      req[s].target = req[s].user

\* C18: an update whose filters match no row the credential can see does
\* not throw; it returns nothing and leaves the table as it was.
C18_UpdateOfNoRow ==
  ( /\ hop.op = "update" /\ ~hop.storeError
    /\ SelectRows(hop.before, hop.filters, hop.cred) = {} ) =>
    /\ ~hop.error
    /\ hop.result = {}
    /\ tbl = hop.before

\* C19: a delete with some filter removes exactly the rows that satisfy
\* every filter and that the credential can see, and returns one of them;
\* when there is no such row it does not throw, returns null and leaves the
\* table as it was.
C19_DeleteMatchingRows ==
  (hop.op = "delete" /\ ~hop.storeError) =>
    LET matching == SelectRows(hop.before, hop.filters, hop.cred)
    IN /\ ~hop.error
       /\ tbl = hop.before \ matching
       /\ IF matching = {} THEN hop.result = {}
          ELSE \E row \in matching : hop.result = {row}

\* C20: for every filter mapping, the rows an update or a delete is applied
\* to are the rows a select with the same mapping and the same credential
\* returns.
C20_SameRowsAsSelect ==
  (hop.op \in {"update", "delete"} /\ hop.sent) =>
    hop.targets = SelectRows(hop.before, hop.filters, hop.cred)

\* C21: a failure while the like notification is produced (the admin
\* lookup, the liker lookup, createNotification) leaves the result of the
\* toggle as it is: once the like branch has written the counter the request
\* only runs notification steps, and it ends with 200 and isLiked = true, the
\* membership row and the written counter still in the store.
C21_NotificationFailureKeepsLike ==
  \A s \in Slots :
    LET r == req[s]
        p == ToNumber(r.postParam)
    IN (r.route = "toggle" /\ r.isLiked) =>
         /\ r.branch = "like" /\ r.mw /\ r.cw
         /\ r.pc \in {"selectAdmins", "selectLiker", "createNotification",
                      "done"}
         /\ r.pc = "done" =>
              /\ r.result = "200"
              /\ post_likes[<<p, r.user>>] >= 1
              /\ blog_posts[p] = r.newCount

\* the only toggle so far liked post 1, a call of its notification failed
\* and no notification was created, and it was answered 200
C21_Witness ==
  /\ calls = 1 /\ storeFailed /\ notifications = 0
  /\ req[1].route = "toggle" /\ req[1].pc = "done" /\ req[1].result = "200"
  /\ req[1].isLiked /\ req[1].sent = 0
  /\ post_likes[<<1, req[1].user>>] = 1 /\ blog_posts[1] = req[1].newCount

\* C22: createNotification never throws: it returns the created
\* notification when the insert succeeds and null on every failure, a store
\* error, a rejected store call and a failure to obtain the client included.
C22_NeverThrows ==
  note.out # "none" =>
    note.out = IF config /\ note.store = "ok" THEN "row" ELSE "null"

C24_ResetOwnPasswordOnly ==
  /\ \A s \in Slots :
       (req[s].route = "reset" /\ req[s].pc = "done" /\ req[s].result = "200")
         => passwords[req[s].user] = "new"
  /\ \A u \in Principals :
       passwords[u] # "old" =>
         \E s \in Slots : /\ req[s].route = "reset" /\ req[s].user = u
                          /\ req[s].pc = "done" /\ req[s].result = "200"

\* C25: the deletion of a user by an admin, which removes the post_likes
\* rows of that user, leaves the likes column of every post equal to the
\* number of its post_likes rows.
C25_UserDeleteKeepsCounter ==
  (Quiescent /\ ~storeFailed) => \A p \in PostIds : Consistent(p)

CommentOf(s) == {c \in comments : c.id = req[s].id}

UpdatingProfile(s, u) ==
  /\ req[s].route = "updateProfile" /\ req[s].pc = "updateProfile"
  /\ req[s].user = u

C30_CounterFailureLeavesMembership ==
  \A s \in Slots :
    LET r == req[s]
        p == ToNumber(r.postParam)
    IN r.failed = "updateCounter" =>
         /\ r.pc = "done" /\ r.result = "DatabaseError"
         /\ r.mw /\ r.cw /\ ~r.isLiked
         /\ (post_likes[<<p, r.user>>] > 0) = r.rowAfter
         /\ r.rowAfter = (r.branch = "like")
         /\ blog_posts[p] = r.cur
         /\ r.sent = 0

\* a like whose insert was applied and whose counter update failed: the row
\* is there and the counter is one short of the rows
C30_Witness ==
  /\ req[1].failed = "updateCounter" /\ req[1].branch = "like"
  /\ req[1].result = "DatabaseError"
  /\ post_likes[<<ToNumber(req[1].postParam), req[1].user>>] = 1
  /\ blog_posts[ToNumber(req[1].postParam)] = req[1].cur
  /\ notifications = 0

TypeOK ==
  /\ \A p \in DOMAIN blog_posts : blog_posts[p] \in Int
  /\ calls \in Nat

====
